---- MODULE Spec2Model ----
(***************************************************************************)
(* Furca: the sync command (cmd/sync.go, current version) and the ci-check *)
(* command (cmd/ci_check.go) over the GitHub client (github/client.go).    *)
(*                                                                         *)
(* One goroutine per discovered fork, a supervisor goroutine that waits    *)
(* for the WaitGroup and closes the result channel, and the main goroutine *)
(* that ranges over the channel and builds the summary.  A goroutine's     *)
(* step runs from one blocking operation (remote call, time.Sleep, channel *)
(* send, wg.Done) to the next; the goroutine-local code in between is part *)
(* of the step.  The remote service answers every call nondeterministically*)
(***************************************************************************)
EXTENDS Integers, Sequences, FiniteSets, TLC

\* ---------------------------------------------------------------- bounds
MaxRepos == 2
MaxRetries == 1
MaxBehind == 2
MaxAttempts == 4
\* repositories per page of the listing (the client asks for PerPage: 100)
PageSize == 1

\* --------------------------------------------------------- program constants
\* default of --max-retries when MAX_RETRIES is unset
DefaultMaxRetries == 2

\* ------------------------------------------------------- values and errors
NoErr == <<>>

\* go-github renders a failed request as "<METHOD> <URL>: <status>"; the compare
\* URL carries the refs, the merge-upstream URL does not (the branch is in the body).
CompareError(branch) == <<"GET compare", branch, "404 Not Found">>
InfoError == <<"GET repo", "500 Internal Server Error">>
MergeErrors == {<<"POST merge-upstream", "404 Not Found">>,
                <<"POST merge-upstream", "409 Conflict">>}

\* fmt.Errorf("<msg>: %w", err) and fmt.Sprintf("<msg>: %v", err)
Wrap(msg, err) == <<msg>> \o err

Range(s) == {s[k] : k \in 1..Len(s)}

\* A remote answer: success with a behind-count (compare), or an error.
OkResp(b) == [ok |-> TRUE, behindBy |-> b, err |-> NoErr]
ErrResp(e) == [ok |-> FALSE, behindBy |-> 0, err |-> e]
NoResp == [ok |-> FALSE, behindBy |-> 0, err |-> NoErr]

\* what the remote service can answer to each call
CompareResponses(branch) == {OkResp(b) : b \in 0..MaxBehind} \cup {ErrResp(CompareError(branch))}
InfoResponses == {OkResp(0), ErrResp(InfoError)}
MergeResponses == {OkResp(0)} \cup {ErrResp(e) : e \in MergeErrors}

\* The state of a fork at the remote service.  Unknown: nothing is assumed, every
\* answer is possible on every call.  Upstream(branch, b): parent and fork have
\* the one branch named (none for ""), the fork is b commits behind, and the
\* service answers every call accordingly.
Unknown == [known |-> FALSE, branch |-> "", behindBy |-> 0]
Upstream(branch, b) == [known |-> TRUE, branch |-> branch, behindBy |-> b]

CompareAnswers(r, branch) ==
    IF ~r.known THEN CompareResponses(branch)
    ELSE IF r.branch = branch THEN {OkResp(r.behindBy)}
         ELSE {ErrResp(CompareError(branch))}
InfoAnswers(r) == IF ~r.known THEN InfoResponses ELSE {OkResp(0)}
MergeAnswers(r, branch) ==
    IF ~r.known THEN MergeResponses
    ELSE IF r.branch = branch THEN {OkResp(0)}
         ELSE {ErrResp(<<"POST merge-upstream", "404 Not Found">>)}

\* The repositories the authenticated identity can list.  Affiliation covers
\* "owner,collaborator,organization_member", so the same name may occur under the
\* user and under an organisation.
Repo(o, n) ==
    [Owner |-> o, Name |-> n, FullName |-> <<o, n>>, ParentOwner |-> "upstream",
     ParentName |-> n]

RepoNames == <<"alpha", "beta", "gamma", "delta", "epsilon">>

\* an account whose forks all belong to the user
OwnListing == [k \in 1..MaxRepos |-> Repo("me", RepoNames[k])]
\* an account that also lists an organisation's fork of the same upstream
OrgListing ==
    [k \in 1..MaxRepos |->
        Repo(IF k % 2 = 1 THEN "me" ELSE "org", RepoNames[((k - 1) \div 2) + 1])]

RECURSIVE SubSeqs(_, _)
\* every subsequence (listing order kept) of the first n entries of a listing
SubSeqs(listing, n) ==
    IF n = 0 THEN {<<>>}
    ELSE LET prev == SubSeqs(listing, n - 1)
         IN  prev \cup {Append(fs, listing[n]) : fs \in prev}

\* ------------------------------------------------------------------ state
VARIABLES
    command,        \* "sync" or "ci-check": the cobra command that runs
    dryRun,         \* --dry-run
    maxRetries,     \* --max-retries (any integer)
    failOnOutdated, \* --fail-on-outdated
    mainpc,         \* position of the command's Run function
    forks,          \* what GetForkedRepositories returned
    launched,       \* number of per-fork goroutines started by the loop
    wg,             \* sync.WaitGroup counter
    results,        \* buffered channel, capacity len(forks)
    closed,         \* close(results) has happened
    sup,            \* supervisor goroutine: "none", "waiting", "done"
    summary,        \* SyncSummary
    ciResult,       \* CICheckResult
    received,       \* number of results taken from the channel so far
    emitted,        \* TRUE once the summary/JSON document was printed
    task,           \* per-fork goroutine: locals and position
    hist,           \* per-fork record of what the remote was asked and answered
    remote,         \* per fork, what is known of its state at the remote service
    disc            \* Client.GetForkedRepositories followed call by call: its frame

vars == <<command, dryRun, maxRetries, failOnOutdated, mainpc, forks, launched, wg,
          results, closed, sup, summary, ciResult, received, emitted, task, hist, disc,
          remote>>

flags == <<command, dryRun, maxRetries, failOnOutdated>>

N == Len(forks)
Forks == 1..N

NoResult == [Name |-> "", Status |-> "", Error |-> NoErr, Behind |-> 0]

\* a goroutine that has not been started
IdleTask(repo) ==
    [pc |-> "idle", fork |-> repo, attempt |-> 0, behind |-> FALSE, behindBy |-> 0,
     err |-> NoErr, first |-> NoResp, out |-> NoResult]

NoHist ==
    [chkInv |-> 0, chkFail |-> 0, syncInv |-> 0, syncFail |-> 0,
     chkSleeps |-> 0, syncSleeps |-> 0,
     cmpCalls |-> 0, mergeCalls |-> 0, mergeOK |-> 0, infoCalls |-> 0, sent |-> 0,
     invCmp |-> 0, lastMain |-> NoResp, lastMaster |-> NoResp, lastErr |-> NoErr,
     preInfo |-> NoResp, mergeMain |-> NoResp, mergeMaster |-> NoResp,
     postInfo |-> NoResp,
     drift |-> -1]

EmptySummary(stamp) ==
    [Synced |-> <<>>, UpToDate |-> <<>>, Errors |-> <<>>, Timestamp |-> stamp]

EmptyCIResult(stamp) ==
    [BehindRepos |-> <<>>, UpToDateRepos |-> <<>>, Errors |-> <<>>, Timestamp |-> stamp,
     TotalBehind |-> 0, TotalUpToDate |-> 0, TotalErrors |-> 0, TotalRepos |-> 0,
     OutdatedStatus |-> FALSE]

\* the frame of GetForkedRepositories when the function is not followed
NoDiscovery ==
    [pc |-> "idle", account |-> <<>>, page |-> 0, allRepos |-> <<>>, k |-> 0,
     answers |-> <<>>, forks |-> <<>>, err |-> NoErr, pagesOK |-> 0, listFailed |-> FALSE]

Init ==
    /\ disc = NoDiscovery
    /\ remote = <<>>
    /\ command \in {"sync", "ci-check"}
    /\ dryRun \in (IF command = "sync" THEN BOOLEAN ELSE {FALSE})
    /\ maxRetries \in (IF command = "sync" THEN -1..MaxRetries ELSE {DefaultMaxRetries})
    /\ failOnOutdated \in (IF command = "ci-check" THEN BOOLEAN ELSE {FALSE})
    /\ mainpc = "token"
    /\ forks = <<>>
    /\ launched = 0
    /\ wg = 0
    /\ results = <<>>
    /\ closed = FALSE
    /\ sup = "none"
    /\ summary = EmptySummary(-1)
    /\ ciResult = EmptyCIResult(-1)
    /\ received = 0
    /\ emitted = FALSE
    /\ task = <<>>
    /\ hist = <<>>

\* ------------------------------------------------ github/client.go (pure part)


\* IsRepositoryBehindUpstream with behind = (behindBy >= 0)
IsRepositoryBehindUpstream_BehindAtZero(main, master) ==
    IF main.ok
    THEN [behind |-> main.behindBy >= 0, behindBy |-> main.behindBy, err |-> NoErr]
    ELSE IF master.ok
         THEN [behind |-> master.behindBy >= 0, behindBy |-> master.behindBy, err |-> NoErr]
         ELSE [behind |-> FALSE, behindBy |-> 0,
               err |-> Wrap("failed to compare commits", master.err)]


\* IsRepositoryBehindUpstream returning the main failure although master answered
IsRepositoryBehindUpstream_PropagatesMain(main, master) ==
    IF main.ok
    THEN [behind |-> main.behindBy > 0, behindBy |-> main.behindBy, err |-> NoErr]
    ELSE [behind |-> FALSE, behindBy |-> 0,
          err |-> Wrap("failed to compare commits", main.err)]

\* IsRepositoryBehindUpstream wrapping the first (main) failure when both fail
IsRepositoryBehindUpstream_WrapsMain(main, master) ==
    IF main.ok
    THEN [behind |-> main.behindBy > 0, behindBy |-> main.behindBy, err |-> NoErr]
    ELSE IF master.ok
         THEN [behind |-> master.behindBy > 0, behindBy |-> master.behindBy, err |-> NoErr]
         ELSE [behind |-> FALSE, behindBy |-> 0,
               err |-> Wrap("failed to compare commits", main.err)]

\* Client.IsRepositoryBehindUpstream: what it returns once the compare calls it
\* issued have been answered (master is NoResp when no master compare was issued).
IsRepositoryBehindUpstream(main, master) ==
    IF main.ok
    THEN [behind |-> main.behindBy > 0, behindBy |-> main.behindBy, err |-> NoErr]
    ELSE IF master.ok
         THEN [behind |-> master.behindBy > 0, behindBy |-> master.behindBy, err |-> NoErr]
         ELSE [behind |-> FALSE, behindBy |-> 0,
               err |-> Wrap("failed to compare commits", master.err)]

\* the master compare is issued only when the main compare returned an error
NeedsMasterCompare(main) == ~main.ok

\* Client.syncBranch: the error it returns for the answer to the merge-upstream POST
syncBranch(resp) ==
    IF resp.ok THEN NoErr ELSE Wrap("failed to execute request", resp.err)

\* NeedsMasterMerge without the fallback: a failed main merge is taken as done
NeedsMasterMerge_Never(mainErr) == FALSE

\* the master merge is attempted only when syncBranch(main) returned an error
NeedsMasterMerge(mainErr) == mainErr # NoErr

\* SyncAfterInfo returning the failure of the info fetch made after the merge
SyncAfterInfo_Propagates(post) ==
    IF post.ok THEN NoErr ELSE Wrap("failed to get repository info", post.err)

\* Client.SyncRepositoryWithUpstream: the error it returns, by the point it returns at
SyncInfoFailed(pre) == Wrap("failed to get repository info", pre.err)
SyncMergeFailed(masterErr) == Wrap("failed to sync repository", masterErr)
SyncAfterInfo(post) == NoErr

\* ----------------------------------------- cmd/sync.go: the per-fork goroutine

Emit(t, r) == [t EXCEPT !.pc = "send", !.out = r, !.first = NoResp]

SyncResult(name, status, error, behindN) ==
    [Name |-> name, Status |-> status, Error |-> error, Behind |-> behindN]


\* AfterSync reporting a failed sync as synced
AfterSync_SwallowsError(t, err) ==
    Emit(t, SyncResult(t.fork.Name, "synced", NoErr, t.behindBy))

\* AfterSync reporting the behind-count of a fresh comparison made after the merge
AfterSync_RereadsBehind(t, err) ==
    IF err # NoErr
    THEN Emit(t, SyncResult(t.fork.Name, "error", Wrap("failed to sync repository", err), 0))
    ELSE Emit(t, SyncResult(t.fork.Name, "synced", NoErr, 0))

\* goroutine, after syncRepositoryWithRetries returned err
AfterSync(t, err) ==
    IF err # NoErr
    THEN Emit(t, SyncResult(t.fork.Name, "error", Wrap("failed to sync repository", err), 0))
    ELSE Emit(t, SyncResult(t.fork.Name, "synced", NoErr, t.behindBy))

\* SyncLoop with one attempt more than the code makes
SyncLoop_OffByOne(t, retries) ==
    IF t.attempt <= retries + 1
    THEN [t EXCEPT !.pc = IF t.attempt > 0 THEN "sync_sleep" ELSE "info_pre",
                   !.first = NoResp]
    ELSE AfterSync(t, t.err)

\* syncRepositoryWithRetries: the for statement's condition and the sleep guard
SyncLoop(t, retries) ==
    IF t.attempt <= retries
    THEN [t EXCEPT !.pc = IF t.attempt > 0 THEN "sync_sleep" ELSE "info_pre",
                   !.first = NoResp]
    ELSE AfterSync(t, t.err)

\* SyncAttemptDone without the return on success: the loop runs all its attempts
SyncAttemptDone_NoEarlyReturn(t, err, retries) ==
    SyncLoop([t EXCEPT !.err = err, !.attempt = @ + 1], retries)

\* syncRepositoryWithRetries: SyncRepositoryWithUpstream returned err
SyncAttemptDone(t, err, retries) ==
    IF err = NoErr
    THEN AfterSync(t, NoErr)
    ELSE SyncLoop([t EXCEPT !.err = err, !.attempt = @ + 1], retries)


\* AfterCheck with the error branch returning without a send
AfterCheck_NoErrorResult(t, behind, behindBy, err, dry, retries) ==
    IF err # NoErr
    THEN [t EXCEPT !.pc = "exit"]
    ELSE IF ~behind
         THEN Emit(t, SyncResult(t.fork.Name, "up_to_date", NoErr, 0))
         ELSE IF dry
              THEN Emit(t, SyncResult(t.fork.Name, "would_sync", NoErr, behindBy))
              ELSE SyncLoop([t EXCEPT !.behind = behind, !.behindBy = behindBy,
                                      !.err = NoErr, !.attempt = 0], retries)

\* AfterCheck without the dry-run branch
AfterCheck_IgnoresDryRun(t, behind, behindBy, err, dry, retries) ==
    IF err # NoErr
    THEN Emit(t, SyncResult(t.fork.Name, "error", Wrap("failed to compare commits", err), 0))
    ELSE IF ~behind
         THEN Emit(t, SyncResult(t.fork.Name, "up_to_date", NoErr, 0))
         ELSE SyncLoop([t EXCEPT !.behind = behind, !.behindBy = behindBy,
                                 !.err = NoErr, !.attempt = 0], retries)

\* AfterCheck handing every fork whose check succeeded to the sync, behind or not
AfterCheck_SyncsUpToDate(t, behind, behindBy, err, dry, retries) ==
    IF err # NoErr
    THEN Emit(t, SyncResult(t.fork.Name, "error", Wrap("failed to compare commits", err), 0))
    ELSE IF dry
         THEN Emit(t, SyncResult(t.fork.Name, "would_sync", NoErr, behindBy))
         ELSE SyncLoop([t EXCEPT !.behind = behind, !.behindBy = behindBy,
                                 !.err = NoErr, !.attempt = 0], retries)

\* goroutine, after checkRepositoryWithRetries returned (behind, behindBy, err)
AfterCheck(t, behind, behindBy, err, dry, retries) ==
    IF err # NoErr
    THEN Emit(t, SyncResult(t.fork.Name, "error", Wrap("failed to compare commits", err), 0))
    ELSE IF ~behind
         THEN Emit(t, SyncResult(t.fork.Name, "up_to_date", NoErr, 0))
         ELSE IF dry
              THEN Emit(t, SyncResult(t.fork.Name, "would_sync", NoErr, behindBy))
              ELSE SyncLoop([t EXCEPT !.behind = behind, !.behindBy = behindBy,
                                      !.err = NoErr, !.attempt = 0], retries)


\* CheckLoop with the condition attempt < maxRetries
CheckLoop_OffByOne(t, dry, retries) ==
    IF t.attempt < retries
    THEN [t EXCEPT !.pc = IF t.attempt > 0 THEN "chk_sleep" ELSE "cmp_main",
                   !.first = NoResp]
    ELSE AfterCheck(t, FALSE, 0, t.err, dry, retries)

\* CheckLoop with the sleep guard attempt >= 0: a delay before the first attempt too
CheckLoop_SleepsFirst(t, dry, retries) ==
    IF t.attempt <= retries
    THEN [t EXCEPT !.pc = IF t.attempt >= 0 /\ t.pc # "chk_sleep"
                          THEN "chk_sleep" ELSE "cmp_main",
                   !.first = NoResp]
    ELSE AfterCheck(t, FALSE, 0, t.err, dry, retries)

\* checkRepositoryWithRetries: the for statement's condition and the sleep guard
CheckLoop(t, dry, retries) ==
    IF t.attempt <= retries
    THEN [t EXCEPT !.pc = IF t.attempt > 0 THEN "chk_sleep" ELSE "cmp_main",
                   !.first = NoResp]
    ELSE AfterCheck(t, FALSE, 0, t.err, dry, retries)

\* checkRepositoryWithRetries: IsRepositoryBehindUpstream returned ret
CheckAttemptDone(t, ret, dry, retries) ==
    IF ret.err = NoErr
    THEN AfterCheck(t, ret.behind, ret.behindBy, NoErr, dry, retries)
    ELSE CheckLoop([t EXCEPT !.behind = ret.behind, !.behindBy = ret.behindBy,
                             !.err = ret.err, !.attempt = @ + 1], dry, retries)

\* ------------------------------------- cmd/ci_check.go: the per-fork goroutine
RepoStatus(name, isBehind, behindN, error) ==
    [Name |-> name, IsBehind |-> isBehind, BehindBy |-> behindN, Error |-> error]

\* CIAfterCheck handing a behind fork to the sync executor
CIAfterCheck_Syncs(t, ret) ==
    IF ret.err # NoErr
    THEN Emit(t, RepoStatus(t.fork.Name, FALSE, 0, Wrap("failed to compare commits", ret.err)))
    ELSE IF ret.behind
         THEN [t EXCEPT !.pc = "info_pre", !.behind = ret.behind, !.behindBy = ret.behindBy]
         ELSE Emit(t, RepoStatus(t.fork.Name, ret.behind, ret.behindBy, NoErr))

\* CIAfterCheck retrying a failed check after a delay, as the sync command does
CIAfterCheck_Retries(t, ret) ==
    IF ret.err # NoErr
    THEN IF t.attempt < DefaultMaxRetries
         THEN [t EXCEPT !.pc = "chk_sleep", !.attempt = @ + 1, !.first = NoResp]
         ELSE Emit(t, RepoStatus(t.fork.Name, FALSE, 0, Wrap("failed to compare commits", ret.err)))
    ELSE Emit(t, RepoStatus(t.fork.Name, ret.behind, ret.behindBy, NoErr))

\* goroutine of ci-check, after IsRepositoryBehindUpstream returned ret
CIAfterCheck(t, ret) ==
    IF ret.err # NoErr
    THEN Emit(t, RepoStatus(t.fork.Name, FALSE, 0, Wrap("failed to compare commits", ret.err)))
    ELSE Emit(t, RepoStatus(t.fork.Name, ret.behind, ret.behindBy, NoErr))

\* the caller of IsRepositoryBehindUpstream gets ret
CheckReturned(t, ret) ==
    IF command = "sync"
    THEN CheckAttemptDone(t, ret, dryRun, maxRetries)
    ELSE CIAfterCheck(t, ret)

\* the caller of SyncRepositoryWithUpstream gets err
SyncReturned(t, err) == SyncAttemptDone(t, err, maxRetries)

\* ------------------------------------------------------- history bookkeeping
BoolInt(b) == IF b THEN 1 ELSE 0

\* IsRepositoryBehindUpstream returned ret to its caller
HistCheckReturned(h, ret) ==
    [h EXCEPT !.chkFail = @ + BoolInt(ret.err # NoErr),
              !.lastErr = ret.err,
              !.drift = IF ret.err = NoErr THEN ret.behindBy ELSE @]

\* SyncRepositoryWithUpstream returned err to its caller
HistSyncReturned(h, err) ==
    [h EXCEPT !.syncFail = @ + BoolInt(err # NoErr), !.lastErr = err]

\* --------------------------------------------------- the command's Run function
mainFrame == <<launched, wg, results, closed, sup, summary, ciResult, received, emitted>>

\* viper.GetString("GITHUB_TOKEN") == "" ends the process with os.Exit(1)
GetToken ==
    /\ mainpc = "token"
    /\ \E present \in BOOLEAN : mainpc' = IF present THEN "client" ELSE "exit1"
    /\ UNCHANGED <<disc, remote, flags, forks, mainFrame, task, hist>>

\* github.NewClient: an authentication failure ends the process with log.Fatalf
NewClient ==
    /\ mainpc = "client"
    /\ \E ok \in BOOLEAN : mainpc' = IF ok THEN "discover" ELSE "exit1"
    /\ UNCHANGED <<disc, remote, flags, forks, mainFrame, task, hist>>

\* the most invocations of a wrapped operation a run over n forks can make:
\* maxRetries + 1 drift checks per fork, and as many syncs in a sync that merges
WorstCaseAttempts(n) ==
    LET attempts == IF command = "sync" THEN (IF maxRetries < 0 THEN 0 ELSE maxRetries + 1)
                    ELSE 1
        wrapped == IF command = "sync" /\ ~dryRun THEN 2 ELSE 1
    IN  n * attempts * wrapped

\* the fork sequences discovery can return within the bounds of the model
Discoverable ==
    {fs \in SubSeqs(OwnListing, MaxRepos) \cup SubSeqs(OrgListing, MaxRepos) :
        WorstCaseAttempts(Len(fs)) <= MaxAttempts}

\* GetForkedRepositories without the return on an empty fork list
GetForkedRepositories_NoEmptyReturn ==
    /\ mainpc = "discover"
    /\ \E failed \in BOOLEAN, fs \in Discoverable :
        IF failed
        THEN /\ mainpc' = "exit1"
             /\ UNCHANGED <<forks, summary, task, hist, remote>>
        ELSE /\ forks' = fs
             /\ remote' = [i \in 1..Len(fs) |-> Unknown]
             /\ mainpc' = "launch"
             /\ summary' = IF command = "sync" THEN EmptySummary(received) ELSE summary
             /\ task' = [i \in 1..Len(fs) |-> IdleTask(fs[i])]
             /\ hist' = [i \in 1..Len(fs) |-> NoHist]
    /\ UNCHANGED <<disc, flags, launched, wg, results, closed, sup, ciResult, received,
                   emitted>>

\* client.GetForkedRepositories and the statements up to the launch loop
GetForkedRepositories ==
    /\ mainpc = "discover"
    /\ \E failed \in BOOLEAN, fs \in Discoverable :
        IF failed
        THEN /\ mainpc' = "exit1"
             /\ UNCHANGED <<forks, summary, task, hist, remote>>
        ELSE /\ forks' = fs
             /\ remote' = [i \in 1..Len(fs) |-> Unknown]
             /\ mainpc' = IF Len(fs) = 0 THEN "returned" ELSE "launch"
             /\ summary' = IF Len(fs) > 0 /\ command = "sync"
                           THEN EmptySummary(received) ELSE summary
             /\ task' = [i \in 1..Len(fs) |-> IdleTask(fs[i])]
             /\ hist' = [i \in 1..Len(fs) |-> NoHist]
    /\ UNCHANGED <<disc, flags, launched, wg, results, closed, sup, ciResult, received,
                   emitted>>

\* Launch with a pool of one worker: the next task starts when none is running
Launch_Capped ==
    /\ mainpc = "launch"
    /\ launched < N
    /\ wg = 0
    /\ launched' = launched + 1
    /\ wg' = wg + 1
    /\ task' = [task EXCEPT ![launched + 1].pc = "run"]
    /\ UNCHANGED <<disc, remote, flags, mainpc, forks, results, closed, sup, summary,
                   ciResult, received, emitted, hist>>

\* Launch without wg.Add(1)
Launch_NoAdd ==
    /\ mainpc = "launch"
    /\ launched < N
    /\ launched' = launched + 1
    /\ task' = [task EXCEPT ![launched + 1].pc = "run"]
    /\ UNCHANGED <<disc, remote, flags, mainpc, forks, wg, results, closed, sup, summary,
                   ciResult, received, emitted, hist>>

\* one iteration of "for _, fork := range forks": wg.Add(1); go func(fork)
Launch ==
    /\ mainpc = "launch"
    /\ launched < N
    /\ launched' = launched + 1
    /\ wg' = wg + 1
    /\ task' = [task EXCEPT ![launched + 1].pc = "run"]
    /\ UNCHANGED <<disc, remote, flags, mainpc, forks, results, closed, sup, summary, ciResult,
                   received, emitted, hist>>

\* after the loop: go func() { wg.Wait(); close(results) }(), and in ci-check
\* the initialisation of ciResult
StartSupervisor ==
    /\ mainpc = "launch"
    /\ launched = N
    /\ sup' = "waiting"
    /\ mainpc' = "range"
    /\ ciResult' = IF command = "ci-check" THEN EmptyCIResult(received) ELSE ciResult
    /\ UNCHANGED <<disc, remote, flags, forks, launched, wg, results, closed, summary, received,
                   emitted, task, hist>>

\* the supervisor closing the channel without waiting for the WaitGroup
CloseResults_NoWait ==
    /\ sup = "waiting"
    /\ closed' = TRUE
    /\ sup' = "done"
    /\ UNCHANGED <<disc, remote, flags, mainpc, forks, launched, wg, results, summary, ciResult,
                   received, emitted, task, hist>>

\* the supervisor goroutine: wg.Wait() returns when the counter is zero
CloseResults ==
    /\ sup = "waiting"
    /\ wg = 0
    /\ closed' = TRUE
    /\ sup' = "done"
    /\ UNCHANGED <<disc, remote, flags, mainpc, forks, launched, wg, results, summary, ciResult,
                   received, emitted, task, hist>>

\* summary.Errors[k] = v
MapPut(m, k, v) == [n \in (DOMAIN m) \cup {k} |-> IF n = k THEN v ELSE m[n]]

\* Route without the case for would_sync
Route_WouldSyncUnrouted(sm, result) ==
    CASE result.Status = "up_to_date" ->
            [sm EXCEPT !.UpToDate = Append(@, result.Name)]
      [] result.Status = "synced" ->
            [sm EXCEPT !.Synced = Append(@, result.Name)]
      [] result.Status = "error" ->
            [sm EXCEPT !.Errors = MapPut(@, result.Name, result.Error)]
      [] OTHER -> sm

\* Route putting the newest name first
Route_Prepends(sm, result) ==
    CASE result.Status = "up_to_date" ->
            [sm EXCEPT !.UpToDate = <<result.Name>> \o @]
      [] result.Status = "would_sync" ->
            [sm EXCEPT !.Synced = <<result.Name>> \o @]
      [] result.Status = "synced" ->
            [sm EXCEPT !.Synced = <<result.Name>> \o @]
      [] result.Status = "error" ->
            [sm EXCEPT !.Errors = MapPut(@, result.Name, result.Error)]
      [] OTHER -> sm

\* Route without the case for synced
Route_DropsSynced(sm, result) ==
    CASE result.Status = "up_to_date" ->
            [sm EXCEPT !.UpToDate = Append(@, result.Name)]
      [] result.Status = "would_sync" ->
            [sm EXCEPT !.Synced = Append(@, result.Name)]
      [] result.Status = "error" ->
            [sm EXCEPT !.Errors = MapPut(@, result.Name, result.Error)]
      [] OTHER -> sm

\* cmd/sync.go: the switch in the body of "for result := range results"
Route(sm, result) ==
    CASE result.Status = "up_to_date" ->
            [sm EXCEPT !.UpToDate = Append(@, result.Name)]
      [] result.Status = "would_sync" ->
            [sm EXCEPT !.Synced = Append(@, result.Name)]
      [] result.Status = "synced" ->
            [sm EXCEPT !.Synced = Append(@, result.Name)]
      [] result.Status = "error" ->
            [sm EXCEPT !.Errors = MapPut(@, result.Name, result.Error)]
      [] OTHER -> sm

\* CIRoute assigning the name instead of appending it
CIRoute_KeepsLast(ci, result) ==
    IF result.Error # NoErr
    THEN [ci EXCEPT !.Errors = MapPut(@, result.Name, result.Error)]
    ELSE IF result.IsBehind
         THEN [ci EXCEPT !.BehindRepos = <<result.Name>>]
         ELSE [ci EXCEPT !.UpToDateRepos = <<result.Name>>]

\* cmd/ci_check.go: the body of "for result := range results"
CIRoute(ci, result) ==
    IF result.Error # NoErr
    THEN [ci EXCEPT !.Errors = MapPut(@, result.Name, result.Error)]
    ELSE IF result.IsBehind
         THEN [ci EXCEPT !.BehindRepos = Append(@, result.Name)]
         ELSE [ci EXCEPT !.UpToDateRepos = Append(@, result.Name)]

\* CICounts counting the forks that ended in error as behind
CICounts_ErrorsAsBehind(ci) ==
    LET b == Len(ci.BehindRepos)
        u == Len(ci.UpToDateRepos)
        e == Cardinality(DOMAIN ci.Errors)
    IN  [ci EXCEPT !.TotalBehind = b + e, !.TotalUpToDate = u, !.TotalErrors = e,
                   !.TotalRepos = b + u + e, !.OutdatedStatus = b + e > 0]

\* cmd/ci_check.go: "Set count fields"
CICounts(ci) ==
    LET b == Len(ci.BehindRepos)
        u == Len(ci.UpToDateRepos)
        e == Cardinality(DOMAIN ci.Errors)
    IN  [ci EXCEPT !.TotalBehind = b, !.TotalUpToDate = u, !.TotalErrors = e,
                   !.TotalRepos = b + u + e, !.OutdatedStatus = b > 0]

\* one iteration of "for result := range results": a buffered result is taken
Receive ==
    /\ mainpc = "range"
    /\ results # <<>>
    /\ results' = Tail(results)
    /\ received' = received + 1
    /\ summary' = IF command = "sync" THEN Route(summary, Head(results)) ELSE summary
    /\ ciResult' = IF command = "ci-check" THEN CIRoute(ciResult, Head(results)) ELSE ciResult
    /\ UNCHANGED <<disc, remote, flags, mainpc, forks, launched, wg, closed, sup, emitted, task, hist>>

\* Finish with sync exiting with status 1 when some fork ended in error
Finish_FailsOnErrors ==
    /\ mainpc = "range"
    /\ results = <<>>
    /\ closed
    /\ emitted' = TRUE
    /\ ciResult' = IF command = "ci-check" THEN CICounts(ciResult) ELSE ciResult
    /\ mainpc' = IF \/ command = "ci-check" /\ failOnOutdated
                        /\ CICounts(ciResult).TotalBehind > 0
                    \/ command = "sync" /\ DOMAIN summary.Errors # {}
                 THEN "exit1" ELSE "returned"
    /\ UNCHANGED <<disc, remote, flags, forks, launched, wg, results, closed, sup, summary, received,
                   task, hist>>

\* the range loop ends on the closed, drained channel; the rest of Run follows
Finish ==
    /\ mainpc = "range"
    /\ results = <<>>
    /\ closed
    /\ emitted' = TRUE
    /\ ciResult' = IF command = "ci-check" THEN CICounts(ciResult) ELSE ciResult
    /\ mainpc' = IF command = "ci-check" /\ failOnOutdated
                       /\ CICounts(ciResult).TotalBehind > 0
                 THEN "exit1" ELSE "returned"
    /\ UNCHANGED <<disc, remote, flags, forks, launched, wg, results, closed, sup, summary, received,
                   task, hist>>

\* --------------------------------------------------------- per-fork goroutine
\* goroutines run only while the process is alive
Running == mainpc \notin {"exit1", "returned", "panic"}

taskFrame == <<disc, remote, flags, mainpc, forks, launched, wg, results, closed, sup, summary,
               ciResult, received, emitted>>

\* the goroutine is scheduled: sync enters checkRepositoryWithRetries, ci-check
\* calls IsRepositoryBehindUpstream directly
TaskStart(i) ==
    /\ Running
    /\ task[i].pc = "run"
    /\ task' = [task EXCEPT ![i] =
                    IF command = "sync" THEN CheckLoop(@, dryRun, maxRetries)
                    ELSE [@ EXCEPT !.pc = "cmp_main"]]
    /\ UNCHANGED <<taskFrame, hist>>

\* IsRepositoryBehindUpstream: CompareCommits(parentOwner:main, main)
CompareMain(i) ==
    /\ Running
    /\ task[i].pc = "cmp_main"
    /\ \E resp \in CompareAnswers(remote[i], "main") :
        LET h == [hist[i] EXCEPT !.chkInv = @ + 1, !.cmpCalls = @ + 1, !.invCmp = 1,
                                 !.lastMain = resp, !.lastMaster = NoResp]
            ret == IsRepositoryBehindUpstream(resp, NoResp)
        IN  IF NeedsMasterCompare(resp)
            THEN /\ task' = [task EXCEPT ![i].pc = "cmp_master", ![i].first = resp]
                 /\ hist' = [hist EXCEPT ![i] = h]
            ELSE /\ task' = [task EXCEPT ![i] = CheckReturned(@, ret)]
                 /\ hist' = [hist EXCEPT ![i] = HistCheckReturned(h, ret)]
    /\ UNCHANGED taskFrame

\* IsRepositoryBehindUpstream: CompareCommits(parentOwner:master, master)
CompareMaster(i) ==
    /\ Running
    /\ task[i].pc = "cmp_master"
    /\ \E resp \in CompareAnswers(remote[i], "master") :
        LET h == [hist[i] EXCEPT !.cmpCalls = @ + 1, !.invCmp = @ + 1, !.lastMaster = resp]
            ret == IsRepositoryBehindUpstream(task[i].first, resp)
        IN  /\ task' = [task EXCEPT ![i] = CheckReturned(@, ret)]
            /\ hist' = [hist EXCEPT ![i] = HistCheckReturned(h, ret)]
    /\ UNCHANGED taskFrame

\* checkRepositoryWithRetries: time.Sleep before a retry
CheckSleep(i) ==
    /\ Running
    /\ task[i].pc = "chk_sleep"
    /\ task' = [task EXCEPT ![i].pc = "cmp_main"]
    /\ hist' = [hist EXCEPT ![i].chkSleeps = @ + 1]
    /\ UNCHANGED taskFrame

\* InfoPre going on to the merge whatever the info fetch returned
InfoPre_IgnoresError(i) ==
    /\ Running
    /\ task[i].pc = "info_pre"
    /\ \E resp \in InfoAnswers(remote[i]) :
        LET h == [hist[i] EXCEPT !.syncInv = @ + 1, !.infoCalls = @ + 1,
                                 !.preInfo = resp,
                                 !.mergeMain = NoResp, !.mergeMaster = NoResp,
                                 !.postInfo = NoResp]
        IN  /\ task' = [task EXCEPT ![i].pc = "merge_main"]
            /\ hist' = [hist EXCEPT ![i] = h]
    /\ UNCHANGED taskFrame

\* SyncRepositoryWithUpstream: Repositories.Get before the merge
InfoPre(i) ==
    /\ Running
    /\ task[i].pc = "info_pre"
    /\ \E resp \in InfoAnswers(remote[i]) :
        LET h == [hist[i] EXCEPT !.syncInv = @ + 1, !.infoCalls = @ + 1,
                                 !.preInfo = resp,
                                 !.mergeMain = NoResp, !.mergeMaster = NoResp,
                                 !.postInfo = NoResp]
        IN  IF ~resp.ok
            THEN /\ task' = [task EXCEPT ![i] = SyncReturned(@, SyncInfoFailed(resp))]
                 /\ hist' = [hist EXCEPT ![i] = HistSyncReturned(h, SyncInfoFailed(resp))]
            ELSE /\ task' = [task EXCEPT ![i].pc = "merge_main"]
                 /\ hist' = [hist EXCEPT ![i] = h]
    /\ UNCHANGED taskFrame

\* SyncRepositoryWithUpstream: syncBranch(ctx, repo, "main")
MergeMain(i) ==
    /\ Running
    /\ task[i].pc = "merge_main"
    /\ \E resp \in MergeAnswers(remote[i], "main") :
        LET h == [hist[i] EXCEPT !.mergeCalls = @ + 1, !.mergeOK = @ + BoolInt(resp.ok),
                                 !.mergeMain = resp]
        IN  /\ task' = [task EXCEPT ![i].pc = IF NeedsMasterMerge(syncBranch(resp))
                                               THEN "merge_master" ELSE "info_post",
                                    ![i].first = resp]
            /\ hist' = [hist EXCEPT ![i] = h]
    /\ UNCHANGED taskFrame

\* SyncRepositoryWithUpstream: syncBranch(ctx, repo, "master")
MergeMaster(i) ==
    /\ Running
    /\ task[i].pc = "merge_master"
    /\ \E resp \in MergeAnswers(remote[i], "master") :
        LET h == [hist[i] EXCEPT !.mergeCalls = @ + 1, !.mergeOK = @ + BoolInt(resp.ok),
                                 !.mergeMaster = resp]
            e == syncBranch(resp)
        IN  IF e # NoErr
            THEN /\ task' = [task EXCEPT ![i] = SyncReturned(@, SyncMergeFailed(e))]
                 /\ hist' = [hist EXCEPT ![i] = HistSyncReturned(h, SyncMergeFailed(e))]
            ELSE /\ task' = [task EXCEPT ![i].pc = "info_post"]
                 /\ hist' = [hist EXCEPT ![i] = h]
    /\ UNCHANGED taskFrame

\* SyncRepositoryWithUpstream: Repositories.Get after the merge
InfoPost(i) ==
    /\ Running
    /\ task[i].pc = "info_post"
    /\ \E resp \in InfoAnswers(remote[i]) :
        LET h == [hist[i] EXCEPT !.infoCalls = @ + 1, !.postInfo = resp]
        IN  /\ task' = [task EXCEPT ![i] = SyncReturned(@, SyncAfterInfo(resp))]
            /\ hist' = [hist EXCEPT ![i] = HistSyncReturned(h, SyncAfterInfo(resp))]
    /\ UNCHANGED taskFrame

\* syncRepositoryWithRetries: time.Sleep before a retry
SyncSleep(i) ==
    /\ Running
    /\ task[i].pc = "sync_sleep"
    /\ task' = [task EXCEPT ![i].pc = "info_pre"]
    /\ hist' = [hist EXCEPT ![i].syncSleeps = @ + 1]
    /\ UNCHANGED taskFrame

\* a buffer for half the forks
Capacity_Half == (N + 1) \div 2

\* results := make(chan SyncResult, len(forks))
Capacity == N

\* Send with the goroutine writing its result into the summary itself
Send_RoutesItself(i) ==
    /\ Running
    /\ task[i].pc = "send"
    /\ Len(results) < Capacity
    /\ ~closed
    /\ results' = Append(results, task[i].out)
    /\ summary' = IF command = "sync" THEN Route(summary, task[i].out) ELSE summary
    /\ task' = [task EXCEPT ![i].pc = "exit"]
    /\ hist' = [hist EXCEPT ![i].sent = @ + 1]
    /\ UNCHANGED <<disc, remote, flags, mainpc, forks, launched, wg, closed, sup, ciResult,
                   received, emitted>>

\* results <- r: blocks while the buffer is full; on a closed channel it panics
Send(i) ==
    /\ Running
    /\ task[i].pc = "send"
    /\ Len(results) < Capacity
    /\ IF closed
       THEN /\ mainpc' = "panic"
            /\ UNCHANGED <<results, task, hist>>
       ELSE /\ results' = Append(results, task[i].out)
            /\ task' = [task EXCEPT ![i].pc = "exit"]
            /\ hist' = [hist EXCEPT ![i].sent = @ + 1]
            /\ UNCHANGED mainpc
    /\ UNCHANGED <<disc, remote, flags, forks, launched, wg, closed, sup, summary, ciResult,
                   received, emitted>>

\* the goroutine returning without wg.Done()
Done_NoWgDone(i) ==
    /\ Running
    /\ task[i].pc = "exit"
    /\ task' = [task EXCEPT ![i] = [IdleTask(@.fork) EXCEPT !.pc = "done"]]
    /\ hist' = [hist EXCEPT ![i].invCmp = 0, ![i].lastMain = NoResp,
                            ![i].lastMaster = NoResp, ![i].lastErr = NoErr,
                            ![i].preInfo = NoResp,
                            ![i].mergeMain = NoResp, ![i].mergeMaster = NoResp,
                            ![i].postInfo = NoResp]
    /\ UNCHANGED <<disc, remote, flags, mainpc, forks, launched, wg, results, closed, sup, summary,
                   ciResult, received, emitted>>

\* the deferred wg.Done() when the goroutine returns; its frame is gone, and the
\* record of its last invocation is dropped with it
Done(i) ==
    /\ Running
    /\ task[i].pc = "exit"
    /\ wg' = wg - 1
    /\ task' = [task EXCEPT ![i] = [IdleTask(@.fork) EXCEPT !.pc = "done"]]
    /\ hist' = [hist EXCEPT ![i].invCmp = 0, ![i].lastMain = NoResp,
                            ![i].lastMaster = NoResp, ![i].lastErr = NoErr,
                            ![i].preInfo = NoResp,
                            ![i].mergeMain = NoResp, ![i].mergeMaster = NoResp,
                            ![i].postInfo = NoResp]
    /\ UNCHANGED <<disc, remote, flags, mainpc, forks, launched, results, closed, sup, summary,
                   ciResult, received, emitted>>

Next ==
    \/ GetToken \/ NewClient \/ GetForkedRepositories
    \/ Launch \/ StartSupervisor \/ CloseResults \/ Receive \/ Finish
    \/ \E i \in Forks : TaskStart(i)
    \/ \E i \in Forks : CompareMain(i)
    \/ \E i \in Forks : CompareMaster(i)
    \/ \E i \in Forks : CheckSleep(i)
    \/ \E i \in Forks : InfoPre(i)
    \/ \E i \in Forks : MergeMain(i)
    \/ \E i \in Forks : MergeMaster(i)
    \/ \E i \in Forks : InfoPost(i)
    \/ \E i \in Forks : SyncSleep(i)
    \/ \E i \in Forks : Send(i)
    \/ \E i \in Forks : Done(i)

Spec == Init /\ [][Next]_vars

\* The Go scheduler runs every runnable goroutine, time.Sleep returns, and a
\* remote call is one step that always returns: some enabled step is taken.
FairSpec == Spec /\ WF_vars(Next)

\* ------------------------------------------- a sync run over five known forks
\* five forks of distinct names: two level with their upstream, one 2 and one 5
\* commits behind, and one whose upstream has neither main nor master
ScenarioRemote ==
    <<Upstream("main", 0), Upstream("master", 0), Upstream("main", 2),
      Upstream("master", 5), Upstream("", 0)>>

ScenarioForks == [i \in 1..Len(ScenarioRemote) |-> Repo("me", RepoNames[i])]

\* syncCmd.Run in normal mode, as GetForkedRepositories has returned the five forks
ScenarioInit ==
    /\ disc = NoDiscovery
    /\ remote = ScenarioRemote
    /\ command = "sync" /\ dryRun = FALSE /\ maxRetries = 0 /\ failOnOutdated = FALSE
    /\ mainpc = "launch"
    /\ forks = ScenarioForks
    /\ launched = 0 /\ wg = 0 /\ results = <<>> /\ closed = FALSE /\ sup = "none"
    /\ summary = EmptySummary(0) /\ ciResult = EmptyCIResult(-1)
    /\ received = 0 /\ emitted = FALSE
    /\ task = [i \in 1..Len(ScenarioForks) |-> IdleTask(ScenarioForks[i])]
    /\ hist = [i \in 1..Len(ScenarioForks) |-> NoHist]

\* the steps of the run from the launch loop on; with maxRetries = 0 no delay
ScenarioNext ==
    \/ Launch \/ StartSupervisor \/ CloseResults \/ Receive \/ Finish
    \/ \E i \in Forks : TaskStart(i)
    \/ \E i \in Forks : CompareMain(i)
    \/ \E i \in Forks : CompareMaster(i)
    \/ \E i \in Forks : InfoPre(i)
    \/ \E i \in Forks : MergeMain(i)
    \/ \E i \in Forks : MergeMaster(i)
    \/ \E i \in Forks : InfoPost(i)
    \/ \E i \in Forks : Send(i)
    \/ \E i \in Forks : Done(i)

ScenarioSpec == ScenarioInit /\ [][ScenarioNext]_vars

\* --------------------------- github/client.go: GetForkedRepositories, call by call
ListError == <<"GET user/repos", "500 Internal Server Error">>

\* what Repositories.Get answers for a listed fork: an error, the repository
\* without parent, or the repository with its parent
DetailResponses(entry) ==
    {[ok |-> FALSE, hasParent |-> FALSE, Owner |-> "", Name |-> "",
      ParentOwner |-> "", ParentName |-> "", err |-> InfoError],
     [ok |-> TRUE, hasParent |-> FALSE, Owner |-> entry.Owner, Name |-> entry.Name,
      ParentOwner |-> "", ParentName |-> "", err |-> NoErr],
     [ok |-> TRUE, hasParent |-> TRUE, Owner |-> entry.Owner, Name |-> entry.Name,
      ParentOwner |-> "upstream", ParentName |-> entry.Name, err |-> NoErr]}

\* no detail was asked for (the listed repository is not a fork)
NoDetail ==
    [ok |-> FALSE, hasParent |-> FALSE, Owner |-> "", Name |-> "",
     ParentOwner |-> "", ParentName |-> "", err |-> NoErr]

\* the repositories an account lists: a prefix of a listing, each a fork or not
Accounts ==
    UNION {{[k \in 1..n |-> [Owner |-> L[k].Owner, Name |-> L[k].Name, Fork |-> f[k]]] :
                f \in [1..n -> BOOLEAN]} :
           n \in 0..MaxRepos, L \in {OwnListing, OrgListing}}

\* one page of the listing and the NextPage of its response (0 on the last page)
PageOf(account, p) ==
    SubSeq(account, (p - 1) * PageSize + 1,
           IF p * PageSize < Len(account) THEN p * PageSize ELSE Len(account))
NextPage(account, p) == IF p * PageSize < Len(account) THEN p + 1 ELSE 0

\* the Repository built from the detail of a fork
Repository(full) ==
    [Owner |-> full.Owner, Name |-> full.Name, FullName |-> <<full.Owner, full.Name>>,
     ParentOwner |-> full.ParentOwner, ParentName |-> full.ParentName]

\* KeepFork appending a fork whose detail has no parent
KeepFork_NoParentCheck(fs, full) ==
    IF ~full.ok THEN fs ELSE Append(fs, Repository(full))

\* the body of the filter loop for a fork, given the answer to the detail fetch
KeepFork(fs, full) ==
    IF ~full.ok THEN fs
    ELSE IF full.hasParent THEN Append(fs, Repository(full)) ELSE fs

\* AfterListError taking a failed page request for the end of the listing
AfterListError_Continues(d, e) ==
    [d EXCEPT !.pc = "filter", !.k = 1, !.listFailed = TRUE]

\* a page request failed: return nil and the wrapped error
AfterListError(d, e) ==
    [d EXCEPT !.pc = "returned", !.forks = <<>>, !.listFailed = TRUE,
              !.err = Wrap("failed to list repositories", e)]

runVars == <<remote, flags, mainpc, forks, mainFrame, task, hist>>

\* a process about to call GetForkedRepositories on some account
DiscoveryInit ==
    /\ remote = <<>>
    /\ command = "sync" /\ dryRun = FALSE /\ maxRetries = 0 /\ failOnOutdated = FALSE
    /\ mainpc = "discover"
    /\ forks = <<>> /\ launched = 0 /\ wg = 0 /\ results = <<>> /\ closed = FALSE
    /\ sup = "none" /\ summary = EmptySummary(-1) /\ ciResult = EmptyCIResult(-1)
    /\ received = 0 /\ emitted = FALSE /\ task = <<>> /\ hist = <<>>
    /\ \E a \in Accounts : disc = [NoDiscovery EXCEPT !.pc = "list", !.account = a, !.page = 1]

\* one iteration of the pagination loop: ListByAuthenticatedUser(ctx, opts)
ListPage ==
    /\ disc.pc = "list"
    /\ \E ok \in BOOLEAN :
        IF ~ok
        THEN disc' = AfterListError(disc, ListError)
        ELSE LET d == [disc EXCEPT !.allRepos = @ \o PageOf(disc.account, disc.page),
                                   !.pagesOK = @ + 1]
             IN  disc' = IF NextPage(disc.account, disc.page) = 0
                         THEN [d EXCEPT !.pc = "filter", !.k = 1]
                         ELSE [d EXCEPT !.page = NextPage(disc.account, disc.page)]
    /\ UNCHANGED runVars

\* one iteration of "for _, repo := range allRepos"
FilterRepo ==
    /\ disc.pc = "filter"
    /\ disc.k <= Len(disc.allRepos)
    /\ LET repo == disc.allRepos[disc.k]
       IN  IF ~repo.Fork
           THEN disc' = [disc EXCEPT !.k = @ + 1, !.answers = Append(@, NoDetail)]
           ELSE \E full \in DetailResponses(repo) :
                    disc' = [disc EXCEPT !.k = @ + 1, !.answers = Append(@, full),
                                         !.forks = KeepFork(@, full)]
    /\ UNCHANGED runVars

\* return forks, nil
ReturnForks ==
    /\ disc.pc = "filter"
    /\ disc.k > Len(disc.allRepos)
    /\ disc' = [disc EXCEPT !.pc = "returned"]
    /\ UNCHANGED runVars

DiscoveryNext == ListPage \/ FilterRepo \/ ReturnForks

DiscoverySpec == DiscoveryInit /\ [][DiscoveryNext]_vars

\* ==================================================================== claims
Statuses == {"up_to_date", "would_sync", "synced", "error"}

\* the goroutine of fork i has a result in hand or has handed it over
Emitted(i) == task[i].pc \in {"send", "exit", "done"}
\* the result is still in the goroutine's frame
Holding(i) == task[i].pc \in {"send", "exit"}
\* the run is over: the range loop ended and Run returned after printing
RunOver == mainpc = "returned" /\ N > 0

\* C1: in a sync run with maxRetries >= 0 every fork's goroutine sends exactly
\* one result, each result carries one of the four statuses, and when the channel
\* is drained exactly N results have been received.
C1_OneResultPerFork ==
    (command = "sync" /\ maxRetries >= 0) =>
        /\ \A i \in Forks :
            /\ hist[i].sent = (IF task[i].pc \in {"exit", "done"} THEN 1 ELSE 0)
            /\ Holding(i) => task[i].out.Status \in Statuses
        /\ \A k \in 1..Len(results) : results[k].Status \in Statuses
        /\ received + Len(results) = Cardinality({i \in Forks : hist[i].sent = 1})
        /\ RunOver => /\ received = N
                      /\ \A i \in Forks : task[i].pc = "done" /\ hist[i].sent = 1

C1_Witness ==
    /\ command = "sync" /\ maxRetries >= 0 /\ ~dryRun
    /\ RunOver /\ N = 2 /\ received = 2
    /\ DOMAIN summary.Errors # {} /\ summary.Synced # <<>>

\* C2: after the channel is drained Synced, UpToDate and the keys of Errors are
\* pairwise disjoint and their sizes add up to the number of forks.
C2_PartitionOfForks ==
    (command = "sync" /\ RunOver) =>
        /\ Range(summary.Synced) \cap Range(summary.UpToDate) = {}
        /\ Range(summary.Synced) \cap DOMAIN summary.Errors = {}
        /\ Range(summary.UpToDate) \cap DOMAIN summary.Errors = {}
        /\ Len(summary.Synced) + Len(summary.UpToDate)
              + Cardinality(DOMAIN summary.Errors) = N

\* every attempt of fork i's drift check, or every attempt of its sync, failed
AllAttemptsFailed(i) ==
    \/ hist[i].chkInv > 0 /\ hist[i].chkFail = hist[i].chkInv
    \/ hist[i].syncInv > 0 /\ hist[i].syncFail = hist[i].syncInv

\* the goroutine of fork i is not blocked: its next step can be taken
CanStep(i) == task[i].pc = "send" => (Len(results) < N /\ ~closed)

\* C3: per-fork error isolation.  After a sync run the keys of Errors are exactly
\* the names of the forks whose drift check or sync failed on all attempts, every
\* other fork is in UpToDate (behindBy = 0) or Synced (behindBy > 0), and no
\* goroutine is ever blocked by what happened to another one.
C3_ErrorIsolation ==
    command = "sync" =>
        /\ \A i \in Forks : CanStep(i)
        /\ RunOver =>
            /\ DOMAIN summary.Errors = {forks[i].Name : i \in {j \in Forks : AllAttemptsFailed(j)}}
            /\ \A i \in Forks :
                ~AllAttemptsFailed(i) =>
                    /\ hist[i].drift = 0 => forks[i].Name \in Range(summary.UpToDate)
                    /\ hist[i].drift > 0 => forks[i].Name \in Range(summary.Synced)
            /\ \A i \in Forks : task[i].pc = "done" /\ hist[i].sent = 1

C3_Witness ==
    /\ command = "sync" /\ ~dryRun /\ RunOver /\ N = 2
    /\ forks[1].Name # forks[2].Name
    /\ AllAttemptsFailed(1) /\ hist[1].syncInv > 0
    /\ ~AllAttemptsFailed(2) /\ hist[2].drift > 0

\* C4: in dry-run mode a fork whose drift check returned behindBy > 0 gets
\* would_sync with Behind = behindBy, and the sync executor is never called: no
\* info fetch and no merge-upstream request for any fork.
C4_DryRunNeverSyncs ==
    (command = "sync" /\ dryRun) =>
        \A i \in Forks :
            /\ hist[i].syncInv = 0 /\ hist[i].mergeCalls = 0 /\ hist[i].infoCalls = 0
            /\ hist[i].drift > 0 =>
                /\ Emitted(i)
                /\ Holding(i) => task[i].out =
                        SyncResult(forks[i].Name, "would_sync", NoErr, hist[i].drift)

C4_Witness ==
    /\ command = "sync" /\ dryRun
    /\ \E i \in Forks : hist[i].drift = 2 /\ task[i].pc = "exit"
                        /\ task[i].out.Status = "would_sync"

\* C5: a fork whose drift check returned behindBy = 0 gets up_to_date, in dry-run
\* and in normal mode, and no merge-upstream request is issued for it.
C5_UpToDateAtZero ==
    command = "sync" =>
        \A i \in Forks :
            hist[i].drift = 0 =>
                /\ Emitted(i)
                /\ Holding(i) => task[i].out =
                        SyncResult(forks[i].Name, "up_to_date", NoErr, 0)
                /\ hist[i].mergeCalls = 0

C5_Witness ==
    /\ command = "sync" /\ ~dryRun
    /\ \E i \in Forks : hist[i].drift = 0 /\ task[i].pc = "exit"
                        /\ task[i].out.Status = "up_to_date"

\* positions of the goroutine inside the two retry wrappers
InCheck(i) == task[i].pc \in {"idle", "run", "cmp_main", "cmp_master", "chk_sleep"}
InSync(i) == task[i].pc \in {"info_pre", "merge_main", "merge_master", "info_post", "sync_sleep"}

\* some invocation of SyncRepositoryWithUpstream returned nil
SyncSucceeded(i) == hist[i].syncInv > hist[i].syncFail

\* C6: in normal mode a fork whose drift check returned b > 0 and whose sync
\* succeeded gets synced with Behind = b, the value of the drift check made
\* before the merge: no drift check is made once the sync has started.
C6_SyncedCarriesDrift ==
    (command = "sync" /\ ~dryRun) =>
        \A i \in Forks :
            /\ hist[i].syncInv > 0 =>
                    hist[i].drift > 0 /\ hist[i].chkInv = hist[i].chkFail + 1
            /\ Holding(i) =>
                /\ task[i].out.Status = "synced" =>
                        SyncSucceeded(i) /\ task[i].out.Behind = hist[i].drift
                /\ (hist[i].drift > 0 /\ SyncSucceeded(i)) =>
                        task[i].out = SyncResult(forks[i].Name, "synced", NoErr, hist[i].drift)

C6_Witness ==
    /\ command = "sync" /\ ~dryRun
    /\ \E i \in Forks : /\ task[i].pc = "exit" /\ task[i].out.Status = "synced"
                        /\ hist[i].drift = 2 /\ task[i].out.Behind = 2

\* the outcome in hand reports the failure of one of the two wrappers
CheckFailedOut(i) ==
    /\ Holding(i) /\ task[i].out.Status = "error"
    /\ Head(task[i].out.Error) = "failed to compare commits"
SyncFailedOut(i) ==
    /\ Holding(i) /\ task[i].out.Status = "error"
    /\ Head(task[i].out.Error) = "failed to sync repository"

\* C7: retry wrapper attempt count, for checkRepositoryWithRetries and
\* syncRepositoryWithRetries with maxRetries = r >= 0.  A wrapper that returns
\* success has invoked the operation k+1 times for its k <= r failures; it
\* returns failure only after r+1 invocations that all failed, and then with
\* the error of the last invocation.
C7_AttemptCount ==
    (command = "sync" /\ maxRetries >= 0) =>
        \A i \in Forks :
            /\ hist[i].chkFail <= hist[i].chkInv /\ hist[i].chkInv <= maxRetries + 1
            /\ hist[i].syncFail <= hist[i].syncInv /\ hist[i].syncInv <= maxRetries + 1
            /\ CheckFailedOut(i) =>
                /\ hist[i].chkInv = maxRetries + 1 /\ hist[i].chkFail = maxRetries + 1
                /\ task[i].out.Error = Wrap("failed to compare commits", hist[i].lastErr)
            /\ (InSync(i) \/ (Holding(i) /\ ~CheckFailedOut(i))) =>
                /\ hist[i].chkInv = hist[i].chkFail + 1
                /\ hist[i].chkFail <= maxRetries
            /\ SyncFailedOut(i) =>
                /\ hist[i].syncInv = maxRetries + 1 /\ hist[i].syncFail = maxRetries + 1
                /\ task[i].out.Error = Wrap("failed to sync repository", hist[i].lastErr)
            /\ (Holding(i) /\ task[i].out.Status = "synced") =>
                /\ hist[i].syncInv = hist[i].syncFail + 1
                /\ hist[i].syncFail <= maxRetries

C7_Witness ==
    /\ command = "sync" /\ maxRetries = 1
    /\ \E i \in Forks : /\ task[i].pc = "exit" /\ task[i].out.Status = "synced"
                        /\ hist[i].chkFail = 1 /\ hist[i].chkInv = 2
                        /\ hist[i].syncFail = 1 /\ hist[i].syncInv = 2

\* C8 as stated: every failed attempt is followed by a delay, one per failed
\* attempt, and a successful attempt by none.
C8_DelayPerFailedAttempt ==
    (command = "sync" /\ maxRetries >= 0) =>
        \A i \in Forks :
            /\ ~InCheck(i) => hist[i].chkSleeps = hist[i].chkFail
            /\ (Emitted(i) /\ hist[i].syncInv > 0) => hist[i].syncSleeps = hist[i].syncFail

Min(a, b) == IF a <= b THEN a ELSE b

\* C8 amended: attempts are sequential and a delay separates consecutive
\* attempts.  A failed attempt is followed by one delay when a retry is left
\* (fewer than maxRetries+1 attempts made); the last permitted attempt, failed or
\* not, and every successful attempt return with no delay after them.
C8_DelayBeforeEveryRetry ==
    command = "sync" =>
        \A i \in Forks :
            /\ task[i].pc = "chk_sleep" =>
                /\ hist[i].chkFail = hist[i].chkInv /\ hist[i].chkInv <= maxRetries
                /\ hist[i].chkSleeps = hist[i].chkInv - 1
            /\ task[i].pc = "cmp_main" =>
                hist[i].chkFail = hist[i].chkInv /\ hist[i].chkSleeps = hist[i].chkInv
            /\ task[i].pc = "cmp_master" => hist[i].chkSleeps = hist[i].chkInv - 1
            /\ (~InCheck(i) /\ hist[i].chkInv > 0) =>
                /\ hist[i].chkSleeps = hist[i].chkInv - 1
                /\ hist[i].chkSleeps = Min(hist[i].chkFail, maxRetries)
            /\ task[i].pc = "sync_sleep" =>
                /\ hist[i].syncFail = hist[i].syncInv /\ hist[i].syncInv <= maxRetries
                /\ hist[i].syncSleeps = hist[i].syncInv - 1
            /\ task[i].pc = "info_pre" =>
                hist[i].syncFail = hist[i].syncInv /\ hist[i].syncSleeps = hist[i].syncInv
            /\ task[i].pc \in {"merge_main", "merge_master", "info_post"} =>
                hist[i].syncSleeps = hist[i].syncInv - 1
            /\ (Emitted(i) /\ hist[i].syncInv > 0) =>
                /\ hist[i].syncSleeps = hist[i].syncInv - 1
                /\ hist[i].syncSleeps = Min(hist[i].syncFail, maxRetries)

C8_Witness ==
    /\ command = "sync" /\ maxRetries = 1
    /\ \E i \in Forks : /\ CheckFailedOut(i)
                        /\ hist[i].chkFail = 2 /\ hist[i].chkSleeps = 1

\* the remote answered the call with an error
Failed(resp) == ~resp.ok /\ resp.err # NoErr

\* C9: branch fallback of IsRepositoryBehindUpstream.  When the main compare
\* fails and the master compare succeeds it returns the master behindBy with
\* behind = (behindBy > 0) and no error; when the main compare succeeds no
\* master compare is issued and the main result is returned.
C9_BranchFallback ==
    \A i \in Forks :
        /\ hist[i].invCmp <= 2
        /\ hist[i].lastMain.ok => (hist[i].invCmp = 1 /\ hist[i].lastMaster = NoResp)
        /\ (Holding(i) \/ InSync(i)) =>
            LET main == hist[i].lastMain
                master == hist[i].lastMaster
                got == IF main.ok THEN main ELSE master
            IN  (main.ok \/ (Failed(main) /\ master.ok)) =>
                    /\ hist[i].drift = got.behindBy
                    /\ hist[i].chkInv = hist[i].chkFail + 1
                    /\ (command = "ci-check" /\ Holding(i)) =>
                            task[i].out = RepoStatus(forks[i].Name, got.behindBy > 0,
                                                     got.behindBy, NoErr)
                    /\ (command = "sync" /\ dryRun /\ Holding(i)) =>
                            task[i].out =
                                IF got.behindBy > 0
                                THEN SyncResult(forks[i].Name, "would_sync", NoErr, got.behindBy)
                                ELSE SyncResult(forks[i].Name, "up_to_date", NoErr, 0)
                    /\ (command = "sync" /\ ~dryRun) =>
                            IF got.behindBy > 0
                            THEN InSync(i) \/ task[i].out.Status \in {"synced", "error"}
                            ELSE task[i].out = SyncResult(forks[i].Name, "up_to_date", NoErr, 0)

C9_Witness ==
    /\ command = "ci-check"
    /\ \E i \in Forks : /\ task[i].pc = "exit"
                        /\ Failed(hist[i].lastMain) /\ hist[i].lastMaster = OkResp(2)
                        /\ task[i].out.IsBehind /\ task[i].out.BehindBy = 2

BothFailed(i) == Failed(hist[i].lastMain) /\ Failed(hist[i].lastMaster)

\* C10: when the main and the master compare both fail, IsRepositoryBehindUpstream
\* returns (false, 0, error) with the error wrapping the master failure, after two
\* compare calls and no third; once the retries are used up the fork's outcome is
\* error, and the other forks' goroutines can still take their steps.
C10_BothComparesFail ==
    \A i \in Forks :
        /\ hist[i].invCmp <= 2
        /\ BothFailed(i) =>
            LET e == Wrap("failed to compare commits", hist[i].lastMaster.err)
            IN  /\ hist[i].invCmp = 2
                /\ hist[i].lastErr = e
                /\ task[i].pc = "chk_sleep" =>
                        task[i].err = e /\ ~task[i].behind /\ task[i].behindBy = 0
                /\ (command = "ci-check" /\ Holding(i)) =>
                        task[i].out = RepoStatus(forks[i].Name, FALSE, 0,
                                                 Wrap("failed to compare commits", e))
                /\ (command = "sync" /\ Holding(i)) =>
                        /\ task[i].out = SyncResult(forks[i].Name, "error",
                                                    Wrap("failed to compare commits", e), 0)
                        /\ maxRetries >= 0 => hist[i].chkFail = maxRetries + 1
                /\ (command = "sync" /\ ~Holding(i)) => task[i].pc \in {"chk_sleep", "cmp_main"}
                /\ \A j \in Forks \ {i} : CanStep(j)

C10_Witness ==
    /\ command = "sync" /\ maxRetries = 1 /\ N = 2
    /\ BothFailed(1) /\ task[1].pc = "exit" /\ task[1].out.Status = "error"
    /\ hist[1].chkFail = 2 /\ hist[1].cmpCalls = 4
    /\ task[2].pc = "exit" /\ task[2].out.Status = "would_sync"

\* the merge-upstream answers of the current invocation of SyncRepositoryWithUpstream
MergeEither(i) == hist[i].mergeMain.ok \/ hist[i].mergeMaster.ok
MergeBothFailed(i) == Failed(hist[i].mergeMain) /\ Failed(hist[i].mergeMaster)
\* SyncRepositoryWithUpstream has returned to the retry wrapper and has not been
\* invoked again
SyncBack(i) == task[i].pc \in {"sync_sleep", "info_pre", "send", "exit"}

\* C11: SyncRepositoryWithUpstream asks merge-upstream for main first and for
\* master only if the main call failed; it goes on (and returns success) if either
\* call succeeds, and if both fail it returns an error wrapping the master failure.
C11_MergeFallback ==
    \A i \in Forks :
        /\ hist[i].mergeMaster # NoResp => Failed(hist[i].mergeMain)
        /\ task[i].pc = "merge_main" => hist[i].mergeMain = NoResp
        /\ task[i].pc = "merge_master" =>
                Failed(hist[i].mergeMain) /\ hist[i].mergeMaster = NoResp
        /\ task[i].pc = "info_post" => MergeEither(i)
        /\ hist[i].mergeMain.ok =>
                hist[i].mergeMaster = NoResp /\ task[i].pc \in {"info_post", "send", "exit"}
        /\ (MergeEither(i) /\ SyncBack(i)) =>
                /\ hist[i].lastErr = NoErr
                /\ Holding(i) /\ task[i].out.Status = "synced"
        /\ MergeBothFailed(i) =>
                /\ SyncBack(i)
                /\ hist[i].lastErr =
                        Wrap("failed to sync repository",
                             Wrap("failed to execute request", hist[i].mergeMaster.err))
                /\ Holding(i) => task[i].out.Status = "error"

C11_Witness ==
    \E i \in Forks :
        /\ command = "sync" /\ task[i].pc = "exit" /\ task[i].out.Status = "error"
        /\ hist[i].mergeMain = ErrResp(<<"POST merge-upstream", "409 Conflict">>)
        /\ hist[i].mergeMaster = ErrResp(<<"POST merge-upstream", "404 Not Found">>)

Conflict(resp) == resp = ErrResp(<<"POST merge-upstream", "409 Conflict">>)

\* C12: a fork for which a merge-upstream request of the sync attempt that
\* produced its outcome was answered 409 Conflict ends in error, never in synced.
C12_ConflictIsError ==
    \A i \in Forks :
        (Holding(i) /\ (Conflict(hist[i].mergeMain) \/ Conflict(hist[i].mergeMaster))) =>
            task[i].out.Status = "error"

\* C13: when a merge-upstream call succeeded and the info fetch after it fails,
\* SyncRepositoryWithUpstream returns nil: the outcome is synced with the drift
\* found before the merge, the wrapper starts no further attempt, and the one
\* successful merge stays the fork's last merge-upstream request.
C13_PostInfoFailureIsSuccess ==
    \A i \in Forks :
        Failed(hist[i].postInfo) =>
            /\ MergeEither(i)
            /\ hist[i].lastErr = NoErr
            /\ Holding(i)
            /\ task[i].out = SyncResult(forks[i].Name, "synced", NoErr, hist[i].drift)
            /\ hist[i].syncInv = hist[i].syncFail + 1
            /\ hist[i].mergeOK = 1

C13_Witness ==
    \E i \in Forks :
        /\ command = "sync" /\ Failed(hist[i].postInfo) /\ task[i].pc = "exit"
        /\ task[i].out.Status = "synced" /\ hist[i].mergeMaster.ok

\* C14 as stated: the receiver takes no result from the channel while some
\* per-fork task has not yet sent its result.
C14_NoReceiveBeforeAllSent ==
    received > 0 => \A i \in Forks : hist[i].sent = 1

\* C14 amended: the aggregation cannot end before every task has sent its
\* outcome.  The channel is closed only when every goroutine has sent and
\* returned, the receiver never holds more results than were sent, and the loop
\* is left, and the summary printed, only with all N results routed.  While the
\* loop runs, results are taken and routed although other tasks are still at work.
C14_AggregationEndsAfterAllSent ==
    /\ received + Len(results) = Cardinality({i \in Forks : hist[i].sent = 1})
    /\ closed => \A i \in Forks : task[i].pc = "done" /\ hist[i].sent = 1
    /\ emitted => (closed /\ received = N /\ results = <<>>)
    /\ mainpc = "range" => ~emitted

C14_Witness ==
    /\ mainpc = "range" /\ N = 2 /\ received = 1 /\ ~closed
    /\ \E i \in Forks : task[i].pc = "cmp_main" /\ hist[i].sent = 0

\* the run over N forks is complete
RunComplete ==
    /\ mainpc \in {"returned", "exit1"} /\ emitted
    /\ \A i \in Forks : task[i].pc = "done"
    /\ closed /\ sup = "done" /\ received = N /\ results = <<>>

\* C15: termination.  With every remote call returning and every goroutine
\* scheduled, a run that discovered N > 0 forks reaches the state where all N
\* tasks have finished, the supervisor has closed the channel and the range loop
\* has received N results and ended; and no state before the end of the process
\* is a deadlock.
C15_Termination ==
    /\ [](mainpc \notin {"returned", "exit1"} => ENABLED Next)
    /\ (mainpc = "launch") ~> RunComplete

C15_Witness ==
    /\ RunComplete /\ N = 2 /\ command = "ci-check"
    /\ ciResult.TotalErrors = 1 /\ ciResult.TotalUpToDate = 1

\* C16: the timestamp of the summary (sync) and of the result document (ci-check)
\* is taken only once the channel is drained: no result is routed after it.  The
\* Timestamp field holds the number of results received when it was stamped.
C16_TimestampAfterDrain ==
    /\ (command = "sync" /\ summary.Timestamp # -1) =>
            (closed /\ results = <<>> /\ received = summary.Timestamp)
    /\ (command = "ci-check" /\ ciResult.Timestamp # -1) =>
            (closed /\ results = <<>> /\ received = ciResult.Timestamp)

\* C17: a ci-check run never calls the sync executor: no repository-info fetch,
\* no merge-upstream request, no retry and no delay; per fork the remote is asked
\* one compare, and a second one for master when the first failed.
C17_CICheckNeverSyncs ==
    command = "ci-check" =>
        \A i \in Forks :
            /\ ~InSync(i) /\ task[i].pc # "chk_sleep"
            /\ hist[i].syncInv = 0 /\ hist[i].mergeCalls = 0 /\ hist[i].infoCalls = 0
            /\ hist[i].chkSleeps = 0 /\ hist[i].syncSleeps = 0
            /\ hist[i].chkInv <= 1 /\ hist[i].cmpCalls <= 2
            /\ hist[i].drift > 0 =>
                /\ Emitted(i)
                /\ Holding(i) => task[i].out =
                        RepoStatus(forks[i].Name, TRUE, hist[i].drift, NoErr)

C17_Witness ==
    /\ command = "ci-check" /\ RunComplete /\ N = 2
    /\ ciResult.TotalBehind = 2
    /\ \A i \in Forks : hist[i].drift = 2 /\ hist[i].cmpCalls = 1

RECURSIVE Selected(_, _, _)
\* of the first n listed repositories, in listing order, those that are forks,
\* whose detail fetch succeeded and whose detail has a parent
Selected(all, answers, n) ==
    IF n = 0 THEN <<>>
    ELSE LET prev == Selected(all, answers, n - 1)
         IN  IF all[n].Fork /\ answers[n].ok /\ answers[n].hasParent
             THEN Append(prev, [Owner |-> all[n].Owner, Name |-> all[n].Name,
                                FullName |-> <<all[n].Owner, all[n].Name>>,
                                ParentOwner |-> answers[n].ParentOwner,
                                ParentName |-> answers[n].ParentName])
             ELSE prev

\* C19: GetForkedRepositories returns, in listing order, exactly the listed
\* repositories that are forks, whose detail fetch succeeded and whose detail has
\* a parent; a fork whose detail fetch fails or has no parent is skipped, the
\* others are kept, and every returned Repository names its parent.
C19_ForksWithParent ==
    /\ disc.pc = "filter" =>
            /\ disc.allRepos = disc.account
            /\ Len(disc.answers) = disc.k - 1
            /\ disc.forks = Selected(disc.allRepos, disc.answers, disc.k - 1)
    /\ (disc.pc = "returned" /\ disc.err = NoErr) =>
            /\ disc.allRepos = disc.account
            /\ Len(disc.answers) = Len(disc.account)
            /\ disc.forks = Selected(disc.account, disc.answers, Len(disc.account))
    /\ \A j \in 1..Len(disc.forks) :
            disc.forks[j].ParentOwner # "" /\ disc.forks[j].ParentName # ""

C19_Witness ==
    /\ disc.pc = "returned" /\ disc.err = NoErr /\ Len(disc.account) = 2
    /\ disc.account[1].Fork /\ ~disc.answers[1].ok
    /\ disc.account[2].Fork /\ disc.answers[2].hasParent
    /\ disc.forks = <<Repo(disc.account[2].Owner, disc.account[2].Name)>>

\* C20: GetForkedRepositories returns an error exactly when a page request of the
\* listing failed, and then no forks, whatever pages were fetched before; with no
\* fork listed it returns the empty sequence and no error, and a failed detail
\* fetch never makes it return an error.
C20_FailsOnlyOnListing ==
    /\ disc.err # NoErr =>
            /\ disc.pc = "returned" /\ disc.listFailed
            /\ disc.forks = <<>>
            /\ disc.err = Wrap("failed to list repositories", ListError)
    /\ disc.listFailed => (disc.pc = "returned" /\ disc.err # NoErr)
    /\ (disc.pc = "returned" /\ ~disc.listFailed) =>
            /\ disc.err = NoErr
            /\ (\A k \in 1..Len(disc.account) : ~disc.account[k].Fork) => disc.forks = <<>>

C20_Witness ==
    /\ disc.pc = "returned" /\ disc.listFailed /\ disc.pagesOK = 1
    /\ disc.allRepos # <<>> /\ disc.allRepos[1].Fork
    /\ disc.forks = <<>> /\ disc.err # NoErr

\* the names of the forks of a set of indices
Names(S) == {forks[i].Name : i \in S}

\* C21: check-only idempotence.  At the end of a ci-check run the set of behind
\* names, the set of up-to-date names and the set of errored names are a function
\* of the answers the compare requests got (one drift check per fork), whatever
\* the interleaving of the tasks: two runs with the same answers end with the
\* same three sets.
C21_CheckOnlyIdempotence ==
    (command = "ci-check" /\ emitted) =>
        /\ \A i \in Forks : hist[i].chkInv = 1
        /\ Range(ciResult.BehindRepos) = Names({i \in Forks : hist[i].drift > 0})
        /\ Range(ciResult.UpToDateRepos) = Names({i \in Forks : hist[i].drift = 0})
        /\ DOMAIN ciResult.Errors = Names({i \in Forks : hist[i].chkFail = 1})

C21_Witness ==
    /\ command = "ci-check" /\ emitted /\ N = 2 /\ forks[1].Name # forks[2].Name
    /\ ciResult.BehindRepos = <<forks[2].Name, forks[1].Name>>
    /\ hist[1].drift = 1 /\ hist[2].drift = 2

\* C22: the end-to-end scenario in normal mode.  Five forks of distinct names,
\* two with behindBy = 0, one with behindBy = 2 and one with behindBy = 5 whose
\* merge succeeds, one whose compare fails on both branches: every interleaving
\* ends with the two level forks in UpToDate, the two merged ones in Synced, the
\* failing one in Errors, and five results processed.
C22_FiveForkScenario ==
    /\ received <= 5 /\ Len(summary.UpToDate) <= 2 /\ Len(summary.Synced) <= 2
    /\ emitted =>
        /\ received = 5
        /\ Len(summary.UpToDate) = 2
        /\ Range(summary.UpToDate) = {"alpha", "beta"}
        /\ Len(summary.Synced) = 2
        /\ Range(summary.Synced) = {"gamma", "delta"}
        /\ DOMAIN summary.Errors = {"epsilon"}

C22_Witness ==
    /\ emitted /\ mainpc = "returned" /\ N = 5 /\ received = 5
    /\ summary.Synced = <<"delta", "gamma">> /\ summary.UpToDate = <<"beta", "alpha">>
    /\ hist[4].mergeCalls = 2 /\ hist[5].cmpCalls = 2

\* C23: sends on the result channel never block.  At most N results are ever
\* buffered, each task sends at most once, and a task that has its result in hand
\* can send it at once, whether or not the receiver has taken anything yet.
C23_SendsNeverBlock ==
    /\ Len(results) <= N
    /\ mainpc # "panic"
    /\ \A i \in Forks :
        /\ hist[i].sent <= 1
        /\ (Running /\ task[i].pc = "send") => ENABLED Send(i)

C23_Witness ==
    /\ N = 2 /\ received = 0 /\ Len(results) = 2
    /\ \A i \in Forks : hist[i].sent = 1

\* C24: the result channel is closed once, by the supervisor, and only when all
\* N per-fork tasks have finished; nothing is sent on it after the close (no send
\* panics), and the receiver's loop ends only after the close.
C24_ClosedOnceAfterAll ==
    /\ [](closed <=> sup = "done")
    /\ [](closed => (wg = 0 /\ launched = N /\ \A i \in Forks : task[i].pc = "done"))
    /\ [](emitted => closed)
    /\ [](mainpc # "panic")
    /\ [][/\ closed => closed'
          /\ (~closed /\ closed') => (sup = "waiting" /\ sup' = "done")
          /\ sup = "done" => sup' = "done"
          /\ closed => (results' = results \/ results' = Tail(results))]_vars

C24_Witness ==
    /\ closed /\ sup = "done" /\ mainpc = "range" /\ N = 2
    /\ Len(results) = 2 /\ received = 0

\* the goroutine of fork i is launched and has not finished
InFlight(i) == task[i].pc \notin {"idle", "done"}
\* some step of the goroutine of fork i
TaskStep(i) ==
    \/ TaskStart(i) \/ CompareMain(i) \/ CompareMaster(i) \/ CheckSleep(i)
    \/ InfoPre(i) \/ MergeMain(i) \/ MergeMaster(i) \/ InfoPost(i) \/ SyncSleep(i)
    \/ Send(i) \/ Done(i)
Sleeping(i) == task[i].pc \in {"chk_sleep", "sync_sleep"}

\* C25: unbounded fan-out.  The launch loop starts the next task whatever the
\* tasks already started are doing, so the tasks in flight are as many as were
\* launched and not finished, up to all N at once; and while a task is in its
\* retry delay every other task in flight can take its next step.
C25_UnboundedFanOut ==
    /\ (mainpc = "launch" /\ launched < N) => ENABLED Launch
    /\ wg = Cardinality({i \in Forks : InFlight(i)})
    /\ \A i \in Forks :
        (Running /\ Sleeping(i)) =>
            \A j \in Forks \ {i} : InFlight(j) => ENABLED TaskStep(j)

C25_Witness ==
    /\ N = MaxRepos /\ wg = N /\ \A i \in Forks : InFlight(i)
    /\ task[1].pc = "chk_sleep" /\ task[N].pc = "cmp_master"

\* C26: the aggregation routes every result it receives into one partition, by
\* its status: up_to_date into UpToDate, would_sync and synced into Synced, error
\* into Errors under the repository name with the message as value; the other
\* partitions are left as they were, and no result has another status.
C26_RoutesByStatus ==
    [][(command = "sync" /\ received' = received + 1) =>
        LET r == Head(results)
        IN  /\ r.Status \in Statuses
            /\ r.Status = "up_to_date" =>
                    summary' = [summary EXCEPT !.UpToDate = Append(@, r.Name)]
            /\ r.Status \in {"would_sync", "synced"} =>
                    summary' = [summary EXCEPT !.Synced = Append(@, r.Name)]
            /\ r.Status = "error" =>
                    /\ summary'.Synced = summary.Synced
                    /\ summary'.UpToDate = summary.UpToDate
                    /\ DOMAIN summary'.Errors = DOMAIN summary.Errors \cup {r.Name}
                    /\ summary'.Errors[r.Name] = r.Error
                    /\ \A n \in DOMAIN summary.Errors \ {r.Name} :
                            summary'.Errors[n] = summary.Errors[n]]_vars

C26_Witness ==
    /\ command = "sync" /\ dryRun /\ N = 2 /\ received = 2
    /\ Len(summary.Synced) = 1 /\ Cardinality(DOMAIN summary.Errors) = 1
    /\ summary.UpToDate = <<>>

\* C27: detect-then-sync inside one fork's task.  The info fetch and the
\* merge-upstream requests of a fork are issued only in a normal-mode sync, after
\* a drift check of that fork returned without error and with behindBy > 0, and
\* no compare is issued for a fork once its sync has started.
C27_DetectThenSync ==
    [][\A i \in Forks :
        /\ (hist'[i].infoCalls > hist[i].infoCalls
               \/ hist'[i].mergeCalls > hist[i].mergeCalls) =>
                /\ command = "sync" /\ ~dryRun
                /\ hist[i].drift > 0
                /\ hist[i].chkInv = hist[i].chkFail + 1
        /\ hist'[i].cmpCalls > hist[i].cmpCalls => hist[i].syncInv = 0]_vars

C27_Witness ==
    \E i \in Forks :
        /\ task[i].pc = "merge_main" /\ hist[i].syncInv = 2 /\ hist[i].syncFail = 1
        /\ hist[i].chkFail = 1 /\ hist[i].cmpCalls = 3 /\ hist[i].drift = 1

\* C28: the names in Synced and in UpToDate stand in the order in which their
\* results were taken from the channel, which is the order in which the tasks
\* sent them: a send joins the back of the channel, a receive takes its front and
\* puts the name behind the names already listed.  The order of the forks is not
\* kept: the second fork's result can be listed before the first's.
C28_ArrivalOrder ==
    [][/\ \A i \in Forks :
            (mainpc' # "panic" /\ task[i].pc = "send" /\ task'[i].pc = "exit") =>
                results' = Append(results, task[i].out)
       /\ (command = "sync" /\ received' = received + 1) =>
            /\ results' = Tail(results)
            /\ summary'.Synced \in
                    {summary.Synced, Append(summary.Synced, Head(results).Name)}
            /\ summary'.UpToDate \in
                    {summary.UpToDate, Append(summary.UpToDate, Head(results).Name)}]_vars

C28_Witness ==
    /\ command = "sync" /\ ~dryRun /\ N = 2 /\ forks[1].Name # forks[2].Name
    /\ summary.Synced = <<forks[2].Name, forks[1].Name>>

\* C29: only the receiver writes the summary and the ci-check result.  A step
\* that changes either is a step of Run itself (the initialisation, a receive,
\* the counts); a step of a per-fork task leaves both as they are, and the task's
\* outcome reaches Run through the channel alone.
C29_SingleWriter ==
    [][/\ (summary' # summary \/ ciResult' # ciResult) =>
            /\ mainpc \in {"discover", "launch", "range"}
            /\ mainpc = "discover" \/ (task' = task /\ hist' = hist)
       /\ \A i \in Forks :
            (task[i].pc \notin {"idle", "done"} /\ task'[i] # task[i]) =>
                /\ summary' = summary /\ ciResult' = ciResult
                /\ received' = received]_vars

C29_Witness ==
    /\ command = "sync" /\ N = 2 /\ received = 0 /\ results = <<>>
    /\ \A i \in Forks : task[i].pc = "send"
    /\ summary = EmptySummary(0)

\* C30: in normal mode with maxRetries >= 0 a fork's outcome is synced exactly
\* when one merge-upstream request for it succeeded: never more than one
\* succeeds, after a successful one no merge-upstream request follows, and with
\* an error outcome (as with up_to_date) none has succeeded.
C30_SyncedIffOneMergeSucceeded ==
    (command = "sync" /\ ~dryRun /\ maxRetries >= 0) =>
        \A i \in Forks :
            /\ hist[i].mergeOK <= 1
            /\ hist[i].mergeOK = 1 => task[i].pc \in {"info_post", "send", "exit", "done"}
            /\ Holding(i) => (task[i].out.Status = "synced" <=> hist[i].mergeOK = 1)
            /\ (Holding(i) /\ task[i].out.Status \in {"error", "up_to_date"}) =>
                    hist[i].mergeOK = 0

C30_Witness ==
    /\ command = "sync" /\ ~dryRun /\ maxRetries = 1
    /\ \E i \in Forks :
        /\ task[i].pc = "exit" /\ task[i].out.Status = "synced"
        /\ hist[i].mergeCalls = 3 /\ hist[i].mergeOK = 1 /\ hist[i].syncFail = 1

\* C31: for every configurable maxRetries, negative values included, the retry
\* wrapper invokes the drift check at least once: a goroutine past the wrapper
\* has made a check, and an up_to_date outcome is in hand only after a compare
\* for that fork succeeded with behindBy = 0.
C31_UpToDateOnlyAfterCompare ==
    command = "sync" =>
        \A i \in Forks :
            /\ (InSync(i) \/ Holding(i)) => hist[i].chkInv >= 1
            /\ (Holding(i) /\ task[i].out.Status = "up_to_date") =>
                    (hist[i].cmpCalls >= 1 /\ hist[i].drift = 0)

\* C32: when the repository-info fetch made before the merge fails,
\* SyncRepositoryWithUpstream returns an error and that invocation issues no
\* merge-upstream request.  The retry wrapper counts it as a failed attempt like
\* any other: with a retry left the task sleeps and the next invocation follows
\* the delay; with none left the fork's outcome is the error.
C32_InfoFailureIsFailedAttempt ==
    \A i \in Forks :
        Failed(hist[i].preInfo) =>
            /\ hist[i].mergeMain = NoResp /\ hist[i].mergeMaster = NoResp
            /\ hist[i].postInfo = NoResp
            /\ hist[i].lastErr = Wrap("failed to get repository info", hist[i].preInfo.err)
            /\ hist[i].syncFail = hist[i].syncInv
            /\ task[i].pc \in {"sync_sleep", "info_pre", "send", "exit"}
            /\ task[i].pc = "sync_sleep" =>
                    (hist[i].syncInv <= maxRetries /\ hist[i].syncSleeps = hist[i].syncInv - 1)
            /\ task[i].pc = "info_pre" =>
                    (hist[i].syncInv <= maxRetries /\ hist[i].syncSleeps = hist[i].syncInv)
            /\ Holding(i) =>
                    /\ hist[i].syncInv = maxRetries + 1
                    /\ task[i].out = SyncResult(forks[i].Name, "error",
                                        Wrap("failed to sync repository", hist[i].lastErr), 0)

C32_Witness ==
    \E i \in Forks :
        /\ Failed(hist[i].preInfo) /\ task[i].pc = "info_pre"
        /\ hist[i].syncInv = 1 /\ hist[i].syncSleeps = 1 /\ hist[i].mergeCalls = 0

C34_SameBranch ==
    \A i \in Forks :
        (command = "sync" /\ Holding(i) /\ task[i].out.Status = "synced") =>
            /\ hist[i].lastMain.ok \/ hist[i].lastMaster.ok
            /\ hist[i].mergeMain.ok \/ hist[i].mergeMaster.ok
            /\ hist[i].lastMain.ok <=> hist[i].mergeMain.ok

\* C35: ci-check calls IsRepositoryBehindUpstream directly, not through the
\* retry wrapper.  Per fork it issues at most two compares, the master one only
\* after the main one failed; a fork whose two compares failed has its error
\* result in hand at once, with no second invocation and no delay, and is listed
\* in Errors when the run ends.
C35_CICheckNoRetry ==
    command = "ci-check" =>
        \A i \in Forks :
            /\ hist[i].cmpCalls <= 2 /\ hist[i].chkInv <= 1
            /\ task[i].pc # "chk_sleep" /\ task[i].attempt = 0
            /\ (hist[i].cmpCalls = 2 /\ task[i].pc # "done") => Failed(hist[i].lastMain)
            /\ hist[i].chkFail = 1 =>
                /\ hist[i].cmpCalls = 2 /\ hist[i].chkSleeps = 0
                /\ Emitted(i)
                /\ Holding(i) =>
                    /\ BothFailed(i)
                    /\ task[i].out = RepoStatus(forks[i].Name, FALSE, 0,
                            Wrap("failed to compare commits", hist[i].lastErr))
                /\ emitted => forks[i].Name \in DOMAIN ciResult.Errors

C35_Witness ==
    /\ command = "ci-check" /\ emitted /\ N = 2 /\ forks[1].Name # forks[2].Name
    /\ hist[1].chkFail = 1 /\ hist[1].cmpCalls = 2 /\ hist[1].chkInv = 1
    /\ hist[2].drift = 2 /\ hist[2].cmpCalls = 2
    /\ DOMAIN ciResult.Errors = {forks[1].Name}

\* C36: when discovery succeeds with zero forks, sync and ci-check alike return
\* at once: no goroutine is launched, no channel or supervisor is set up, no
\* compare or merge call is made, and no summary or result document is built or
\* emitted; nothing more happens in the run.
C36_NoForksNoSummary ==
    N = 0 =>
        /\ mainpc \in {"token", "client", "discover", "exit1", "returned"}
        /\ launched = 0 /\ wg = 0 /\ sup = "none" /\ results = <<>> /\ ~closed
        /\ task = <<>> /\ hist = <<>>
        /\ received = 0 /\ ~emitted
        /\ summary = EmptySummary(-1) /\ ciResult = EmptyCIResult(-1)
        /\ mainpc = "returned" => ~ENABLED Next

C36_Witness ==
    /\ mainpc = "returned" /\ N = 0 /\ command = "ci-check" /\ failOnOutdated
    /\ ~emitted /\ ciResult = EmptyCIResult(-1)

\* C37: the exit status of sync does not depend on the forks' outcomes.  The
\* process ends with a non-zero status only from the token check, the client
\* construction or the listing, each before any goroutine is launched; once
\* discovery has succeeded the run ends normally, errors in the summary or not.
C37_SyncExitStatus ==
    /\ [](command = "sync" =>
            /\ mainpc # "panic"
            /\ mainpc = "exit1" =>
                    (forks = <<>> /\ launched = 0 /\ task = <<>> /\ ~emitted)
            /\ emitted => mainpc = "returned")
    /\ [][(command = "sync" /\ mainpc' = "exit1" /\ mainpc # "exit1") =>
            mainpc \in {"token", "client", "discover"}]_vars

C37_Witness ==
    /\ command = "sync" /\ emitted /\ mainpc = "returned" /\ N = 2
    /\ Cardinality(DOMAIN summary.Errors) = 2
    /\ summary.Synced = <<>> /\ summary.UpToDate = <<>>

====
